---- MODULE Spec2Model ----
(***************************************************************************)
(* Model of the Spotify -> Google Sheets export scripts.                   *)
(*   main.py          get_google_sheet, get_spotify_client, the three      *)
(*                    fetchers, export_to_sheets and main                  *)
(*   spotify_auth.py  authenticate_spotify and test_spotify_connection     *)
(* Python dicts are functions over their keys, lists are sequences, None   *)
(* is the record None.  The Spotify and Sheets services are the            *)
(* environment: each call on them either raises or returns.  The           *)
(* spreadsheet starts empty and is written by these runs alone.            *)
(***************************************************************************)
EXTENDS Integers, Sequences, FiniteSets, TLC

VARIABLES
    pc,          \* position of the running script
    run,         \* number of the current run of the script
    now,         \* wall clock, in seconds
    sheet,       \* rows of the worksheet (sheet1), top to bottom
    token_file,  \* spotify_token.json: NoFile, Corrupt or a token_info
    sp,          \* the Spotify client handle of the run (None when absent)
    worksheet,   \* the worksheet handle of the run (None when absent)
    api,         \* per fetcher, what the Spotify call of this run did
    fetched,     \* per fetcher, the list it returned
    all_data,    \* main: recent_tracks + top_tracks_short + ...
    rows,        \* export_to_sheets: the converted rows
    i,           \* export_to_sheets: loop variable of the batch loop;
                 \* test_spotify_connection: the tests made so far
    token_info,  \* authenticate_spotify: the token loaded from the file
    events       \* history: the external calls and prints of the run

vars == <<pc, run, now, sheet, token_file, sp, worksheet, api, fetched,
          all_data, rows, i, token_info, events>>

-----------------------------------------------------------------------------
(* Bounds of the model *)

\* number of runs of main.py against the same spreadsheet
MaxRuns == 2
\* most items the Spotify service returns to one call of a run of main
MaxItems == 2
\* longest response handed to a fetcher called on its own
MaxResp == 2
\* number of distinct record patterns in the data handed to export_to_sheets
MaxShift == 2

(* Program constants *)

batch_size == 50
RecentLimit == 50
TopLimit == 20
SleepSeconds == 1

-----------------------------------------------------------------------------
(* Python values *)

None == [none |-> TRUE]

Min(a, b) == IF a < b THEN a ELSE b

HasKeys(d, ks) == ks \subseteq DOMAIN d

\* dict.get(key, default)
Get(d, key, default) == IF key \in DOMAIN d THEN d[key] ELSE default

Without(d, key) == [k \in DOMAIN d \ {key} |-> d[k]]

\* ', '.join(names)
RECURSIVE Join(_)
Join(names) ==
    IF names = <<>> THEN ""
    ELSE IF Len(names) = 1 THEN names[1]
    ELSE names[1] \o ", " \o Join(Tail(names))

\* names[:n]
Take(s, n) == SubSeq(s, 1, Min(n, Len(s)))

\* [artist['name'] for artist in artists]
Names(artists) == [k \in 1..Len(artists) |-> artists[k].name]

(* A timestamp string is the sequence of its parts.                        *)
(* '2024-05-01T10:00:00.123Z' is <<"2024-05-01","T","10:00:00",".","123","Z">> *)
\* datetime.strptime(s, '%Y-%m-%dT%H:%M:%S.%fZ') raises ValueError
StrptimeRaises(s) ==
    ~ (Len(s) = 6 /\ s[2] = "T" /\ s[4] = "." /\ s[6] = "Z")

\* datetime.strptime(s, '%Y-%m-%dT%H:%M:%S.%fZ')
Strptime(s) == [date |-> s[1], time |-> s[3], microsecond |-> s[5]]

\* dt.strftime('%Y-%m-%d %H:%M:%S')
Strftime(dt) == dt.date \o " " \o dt.time

-----------------------------------------------------------------------------
(* The fetchers of main.py.  A call on the Spotify client is               *)
(* [raised |-> BOOLEAN, items |-> the 'items' list of the response].       *)

TrackKeys == {"name", "artists", "album", "duration_ms", "popularity"}

\* a key lookup on the track object raises KeyError
TrackRaises(track) ==
    \/ ~ HasKeys(track, TrackKeys)
    \/ \E k \in 1..Len(track.artists) : ~ HasKeys(track.artists[k], {"name"})
    \/ ~ HasKeys(track.album, {"name"})

\* RecentItemRaises were item['context']['type'] read without the guard
RecentItemRaisesUnguarded(item) ==
    \/ ~ HasKeys(item, {"track", "context"})
    \/ TrackRaises(item.track)
    \/ /\ Get(item, "played_at", <<>>) # <<>>
       /\ StrptimeRaises(item.played_at)
    \/ ~ HasKeys(item.context, {"type"})

\* the body of the for loop of get_recently_played raises on this item
RecentItemRaises(item) ==
    \/ ~ HasKeys(item, {"track", "context"})
    \/ TrackRaises(item.track)
    \/ /\ Get(item, "played_at", <<>>) # <<>>
       /\ StrptimeRaises(item.played_at)
    \/ /\ item.context # None
       /\ ~ HasKeys(item.context, {"type"})

\* RecentRecord with the album and the track name exchanged
RecentRecordSwapped(item) ==
    LET track == item.track
        played_at == Get(item, "played_at", <<>>)
    IN  [type |-> "recent",
         track_name |-> track.album.name,
         artists |-> Join(Names(track.artists)),
         album |-> track.name,
         duration_ms |-> track.duration_ms,
         popularity |-> track.popularity,
         played_at |-> IF played_at # <<>> THEN Strftime(Strptime(played_at))
                       ELSE "",
         context |-> IF item.context # None THEN item.context.type
                     ELSE "Unknown"]

\* the dict appended for one item by get_recently_played
RecentRecord(item) ==
    LET track == item.track
        played_at == Get(item, "played_at", <<>>)
        played_at_formatted ==
            IF played_at # <<>> THEN Strftime(Strptime(played_at)) ELSE ""
        artists == Join(Names(track.artists))
    IN  [type |-> "recent",
         track_name |-> track.name,
         artists |-> artists,
         album |-> track.album.name,
         duration_ms |-> track.duration_ms,
         popularity |-> track.popularity,
         played_at |-> played_at_formatted,
         context |-> IF item.context # None THEN item.context.type
                     ELSE "Unknown"]

\* the dict appended for one item by get_top_tracks
TopTrackRecord(track, time_range) ==
    [type |-> "top_" \o time_range,
     track_name |-> track.name,
     artists |-> Join(Names(track.artists)),
     album |-> track.album.name,
     duration_ms |-> track.duration_ms,
     popularity |-> track.popularity,
     played_at |-> "",
     context |-> "top_tracks"]

\* the body of the for loop of get_top_artists raises on this item
ArtistRaises(artist) == ~ HasKeys(artist, {"name", "popularity", "genres"})

\* the dict appended for one item by get_top_artists
TopArtistRecord(artist, time_range) ==
    [type |-> "artist_" \o time_range,
     track_name |-> "",
     artists |-> artist.name,
     album |-> "",
     duration_ms |-> "",
     popularity |-> artist.popularity,
     played_at |-> "",
     context |-> "top_artists",
     genres |-> Join(Take(artist.genres, 3))]

(* The for loops: the list built so far, and whether the body raised.      *)
RECURSIVE RecentLoop(_, _, _)
RecentLoop(items, k, tracks_data) ==
    IF k > Len(items) THEN [raised |-> FALSE, value |-> tracks_data]
    ELSE IF RecentItemRaises(items[k])
         THEN [raised |-> TRUE, value |-> tracks_data]
         ELSE RecentLoop(items, k + 1,
                         Append(tracks_data, RecentRecord(items[k])))

RECURSIVE TopTracksLoop(_, _, _, _)
TopTracksLoop(items, k, tracks_data, time_range) ==
    IF k > Len(items) THEN [raised |-> FALSE, value |-> tracks_data]
    ELSE IF TrackRaises(items[k])
         THEN [raised |-> TRUE, value |-> tracks_data]
         ELSE TopTracksLoop(items, k + 1,
                  Append(tracks_data, TopTrackRecord(items[k], time_range)),
                  time_range)

RECURSIVE TopArtistsLoop(_, _, _, _)
TopArtistsLoop(items, k, artists_data, time_range) ==
    IF k > Len(items) THEN [raised |-> FALSE, value |-> artists_data]
    ELSE IF ArtistRaises(items[k])
         THEN [raised |-> TRUE, value |-> artists_data]
         ELSE TopArtistsLoop(items, k + 1,
                  Append(artists_data, TopArtistRecord(items[k], time_range)),
                  time_range)

\* OnLoopResult were the list built so far returned from the except
OnLoopResultPartial(r) == r.value

\* try: ... return tracks_data / except Exception: return []
OnLoopResult(r) == IF r.raised THEN <<>> ELSE r.value

get_recently_played(call) ==
    IF call.raised THEN <<>>
    ELSE OnLoopResult(RecentLoop(call.items, 1, <<>>))

get_top_tracks(call, time_range) ==
    IF call.raised THEN <<>>
    ELSE OnLoopResult(TopTracksLoop(call.items, 1, <<>>, time_range))

get_top_artists(call, time_range) ==
    IF call.raised THEN <<>>
    ELSE OnLoopResult(TopArtistsLoop(call.items, 1, <<>>, time_range))

(* The four fetches of main, in call order. *)
Fetchers == <<"recent", "top_short", "top_medium", "artists">>

FetcherLimit(f) == IF f = "recent" THEN RecentLimit ELSE TopLimit

\* the fetcher call main makes for f, applied to what the service did
RunFetcher(f, call) ==
    CASE f = "recent"     -> get_recently_played(call)
      [] f = "top_short"  -> get_top_tracks(call, "short_term")
      [] f = "top_medium" -> get_top_tracks(call, "medium_term")
      [] f = "artists"    -> get_top_artists(call, "medium_term")

-----------------------------------------------------------------------------
(* The Spotify service: the objects it returns. *)

Ann == [name |-> "Ann", id |-> "a1"]
Bob == [name |-> "Bob", id |-> "b2"]

ArtistLists == << <<>>, <<Ann>>, <<Ann, Bob>> >>

TrackWith(artists, n) ==
    [name |-> "Song", artists |-> artists, album |-> [name |-> "LP"],
     duration_ms |-> 1000 + n, popularity |-> n]

GoodPlayedAt == <<"2024-05-01", "T", "10:00:00", ".", "123", "Z">>
\* the service leaves the fraction out now and then
NoFractionPlayedAt == <<"2024-05-01", "T", "10:00:00", "Z">>

Playlist == [type |-> "playlist", uri |-> "spotify:playlist:1"]

GenreLists == << <<>>, <<"pop", "rock">>, <<"pop", "rock", "jazz", "folk">> >>

ArtistWith(genres, n) ==
    [name |-> "Ann", popularity |-> n, genres |-> genres]

\* the well-formed items of each endpoint
GoodRecentItems ==
    { [track |-> TrackWith(ArtistLists[a], 7), played_at |-> p, context |-> c] :
        a \in 1..3, p \in {<<>>, GoodPlayedAt}, c \in {None, Playlist} }
    \cup { [track |-> TrackWith(<<Bob>>, 7), context |-> c] : c \in {None, Playlist} }

BadRecentItems ==
    { [track |-> TrackWith(<<Ann>>, 7), played_at |-> NoFractionPlayedAt,
       context |-> None],
      [track |-> Without(TrackWith(<<Ann>>, 7), "album"),
       played_at |-> GoodPlayedAt, context |-> Playlist],
      [track |-> TrackWith(<<Ann>>, 7), played_at |-> GoodPlayedAt] }

GoodTracks == { TrackWith(ArtistLists[a], 7) : a \in 1..3 }
BadTracks == { Without(TrackWith(<<Ann>>, 7), "album") }

GoodArtists == { ArtistWith(GenreLists[g], 7) : g \in 1..3 }
BadArtists == { Without(ArtistWith(<<"pop">>, 7), "genres") }

ItemsOf(f) ==
    CASE f = "recent"  -> GoodRecentItems \cup BadRecentItems
      [] f = "artists" -> GoodArtists \cup BadArtists
      [] OTHER         -> GoodTracks \cup BadTracks

ItemRaises(f, item) ==
    CASE f = "recent"  -> RecentItemRaises(item)
      [] f = "artists" -> ArtistRaises(item)
      [] OTHER         -> TrackRaises(item)

\* all lists of at most n elements of S
RECURSIVE SeqsUpTo(_, _)
SeqsUpTo(S, n) ==
    IF n = 0 THEN {<<>>}
    ELSE LET shorter == SeqsUpTo(S, n - 1)
         IN  shorter \cup { Append(q, x) : q \in shorter, x \in S }

NoCall == [made |-> FALSE, raised |-> FALSE, items |-> <<>>]
Raised == [made |-> TRUE, raised |-> TRUE, items |-> <<>>]
Returned(items) == [made |-> TRUE, raised |-> FALSE, items |-> items]

(* The k-th item the service returns to a fetch of a run of main: the      *)
(* shapes vary with k.                                                     *)
PatternItem(f, k) ==
    CASE f = "recent" ->
            [track |-> TrackWith(ArtistLists[(k % 3) + 1], k),
             played_at |-> IF k % 2 = 0 THEN GoodPlayedAt ELSE <<>>,
             context |-> IF k % 2 = 0 THEN Playlist ELSE None]
      [] f = "artists" -> ArtistWith(GenreLists[(k % 3) + 1], k)
      [] OTHER -> TrackWith(ArtistLists[(k % 3) + 1], k)

BadPatternItem(f) ==
    CASE f = "recent" ->
            [track |-> TrackWith(<<Ann>>, 0),
             played_at |-> NoFractionPlayedAt, context |-> None]
      [] f = "artists" -> Without(ArtistWith(<<"pop">>, 0), "genres")
      [] OTHER -> Without(TrackWith(<<Ann>>, 0), "album")

PatternItems(f, n) == [k \in 1..n |-> PatternItem(f, k)]

\* what one call of main on the service can do: raise, return nothing,
\* return n items, or return n items the last of which is malformed
MainCalls(f) ==
    LET n == Min(FetcherLimit(f), MaxItems)
    IN  { Raised, Returned(<<>>), Returned(PatternItems(f, n)),
          Returned([PatternItems(f, n) EXCEPT ![n] = BadPatternItem(f)]) }

-----------------------------------------------------------------------------
(* The worksheet.  append_rows adds the rows below the last row, or raises *)
(* and adds nothing.                                                       *)

headers ==
    << <<"Timestamp", "Type", "Track Name", "Artist(s)", "Album",
         "Duration (ms)", "Popularity", "Played At", "Context">> >>

\* worksheet.get('A1') is empty
A1Empty(sh) == sh = <<>> \/ sh[1][1] = ""

\* HeaderRows without the test of A1
HeaderRowsAlways(sh) == headers

\* get_google_sheet, lines 22-27: the rows it appends to the sheet it found
HeaderRows(sh) == IF A1Empty(sh) THEN headers ELSE <<>>

\* datetime.now().strftime('%Y-%m-%d %H:%M:%S') at clock reading t
Seconds(t) == IF t < 10 THEN "0" \o ToString(t) ELSE ToString(t)
NowString(t) == "2024-05-01 10:00:" \o Seconds(t)

\* RowOf with the last two cells exchanged
RowOfSwapped(timestamp, item) ==
    << timestamp,
       Get(item, "type", ""),
       Get(item, "track_name", ""),
       Get(item, "artists", ""),
       Get(item, "album", ""),
       Get(item, "duration_ms", ""),
       Get(item, "popularity", ""),
       Get(item, "context", ""),
       Get(item, "played_at", "") >>

\* export_to_sheets, lines 152-162: the row of one item
RowOf(timestamp, item) ==
    << timestamp,
       Get(item, "type", ""),
       Get(item, "track_name", ""),
       Get(item, "artists", ""),
       Get(item, "album", ""),
       Get(item, "duration_ms", ""),
       Get(item, "popularity", ""),
       Get(item, "played_at", ""),
       Get(item, "context", "") >>

\* export_to_sheets, lines 148-163: timestamp is taken once, before the loop
RowsOf(t, data) ==
    LET timestamp == NowString(t)
    IN  [k \in 1..Len(data) |-> RowOf(timestamp, data[k])]

\* Batch with the slice one row short: rows[i:i + batch_size - 1]
BatchShort(rs, from) ==
    SubSeq(rs, from + 1, Min(from + batch_size - 1, Len(rs)))

\* rows[i:i + batch_size], i counted from 0
Batch(rs, from) == SubSeq(rs, from + 1, Min(from + batch_size, Len(rs)))

\* export_to_sheets, lines 169-173: whether the loop sleeps after an append
SleepsAfter(ok) == ok

\* AfterBatch were the loop left at the first append that raises
AfterBatchAbort(from, ok, n) == IF ok THEN from + batch_size ELSE n

\* lines 167 and 172-173: the except only prints, the for loop goes on from
\* the next multiple of batch_size whether the append returned or raised
AfterBatch(from, ok, n) == from + batch_size

Event(op) == [op |-> op]
Printed(msg) == [op |-> "print", msg |-> msg]
AppendCall(batch, ok) == [op |-> "append", rows |-> batch, ok |-> ok]

\* export_to_sheets, lines 143-163
ExportCall ==
    /\ pc = "export_call"
    /\ IF all_data = <<>>
       THEN /\ events' = Append(events, Printed("No data to export"))
            /\ pc' = "returned"
            /\ UNCHANGED <<rows, i>>
       ELSE /\ rows' = RowsOf(now, all_data)
            /\ i' = 0
            /\ pc' = "batch"
            /\ UNCHANGED events
    /\ UNCHANGED <<run, now, sheet, token_file, sp, worksheet, api, fetched,
                   all_data, token_info>>

\* one pass of the batch loop, lines 167-173: append_rows returns or raises
BatchStep ==
    /\ pc = "batch"
    /\ i < Len(rows)
    /\ \E ok \in BOOLEAN :
         LET batch == Batch(rows, i)
         IN  /\ sheet' = IF ok THEN sheet \o batch ELSE sheet
             /\ now' = IF SleepsAfter(ok) THEN now + SleepSeconds ELSE now
             /\ events' = events \o <<AppendCall(batch, ok)>>
                    \o (IF SleepsAfter(ok) THEN <<Event("sleep")>> ELSE <<>>)
                    \o (IF ok THEN <<>> ELSE <<Printed("Error adding batch")>>)
             /\ i' = AfterBatch(i, ok, Len(rows))
    /\ UNCHANGED <<pc, run, token_file, sp, worksheet, api, fetched, all_data,
                   rows, token_info>>

\* the batch loop is over: export_to_sheets returns
ExportReturn ==
    /\ pc = "batch"
    /\ i >= Len(rows)
    /\ pc' = "returned"
    /\ UNCHANGED <<run, now, sheet, token_file, sp, worksheet, api, fetched,
                   all_data, rows, i, token_info, events>>

-----------------------------------------------------------------------------
(* main.py: main *)

Client == [kind |-> "auth_manager", access_token |-> ""]
Handle == [kind |-> "worksheet"]

FetcherSet == { Fetchers[k] : k \in 1..Len(Fetchers) }

NoCalls == [f \in FetcherSet |-> NoCall]
NoFetched == [f \in FetcherSet |-> <<>>]

\* main, lines 180-181: if not sp: return
AfterSpotify(client) == IF client = None THEN "done" ELSE "sheet"

\* AfterSheet without the return
AfterSheetNoReturn(ws) == "fetch"

\* main, lines 185-186: if not worksheet: return
AfterSheet(ws) == IF ws = None THEN "done" ELSE "fetch"

\* get_spotify_client returns a client, or prints the error and returns None
GetSpotifyClient ==
    /\ pc = "start"
    /\ \E ok \in BOOLEAN :
         /\ sp' = IF ok THEN Client ELSE None
         /\ events' = events
                \o <<[op |-> "auth", how |-> "client", ok |-> ok]>>
                \o (IF ok THEN <<>>
                    ELSE <<Printed("Spotify authentication error")>>)
    /\ pc' = AfterSpotify(sp')
    /\ UNCHANGED <<run, now, sheet, token_file, worksheet, api, fetched,
                   all_data, rows, i, token_info>>

\* get_google_sheet: connecting raises, or the header append raises, or the
\* worksheet is returned with its header row ensured
GetGoogleSheet ==
    /\ pc = "sheet"
    /\ \/ /\ worksheet' = None
          /\ sheet' = sheet
          /\ events' = events \o <<[op |-> "sheet", ok |-> FALSE],
                                   Printed("Google Sheets error")>>
       \/ /\ HeaderRows(sheet) # <<>>
          /\ worksheet' = None
          /\ sheet' = sheet
          /\ events' = events \o <<AppendCall(HeaderRows(sheet), FALSE),
                                   [op |-> "sheet", ok |-> FALSE],
                                   Printed("Google Sheets error")>>
       \/ /\ worksheet' = Handle
          /\ sheet' = sheet \o HeaderRows(sheet)
          /\ events' = events
                \o (IF HeaderRows(sheet) # <<>>
                    THEN <<AppendCall(HeaderRows(sheet), TRUE)>> ELSE <<>>)
                \o <<[op |-> "sheet", ok |-> TRUE]>>
    /\ pc' = AfterSheet(worksheet')
    /\ UNCHANGED <<run, now, token_file, sp, api, fetched, all_data, rows, i,
                   token_info>>

\* the fetcher main calls next
NextFetcher == Fetchers[Cardinality({f \in FetcherSet : api[f].made}) + 1]

\* one of the four fetcher calls of main, lines 190-197
Fetch ==
    /\ pc = "fetch"
    /\ LET f == NextFetcher
       IN  \E call \in MainCalls(f) :
             /\ api' = [api EXCEPT ![f] = call]
             /\ fetched' = [fetched EXCEPT ![f] = RunFetcher(f, call)]
             /\ events' = events \o <<[op |-> "fetch", f |-> f]>>
                    \o (IF call.raised
                           \/ \E k \in 1..Len(call.items) :
                                ItemRaises(f, call.items[k])
                        THEN <<Printed("Error fetching")>> ELSE <<>>)
             /\ pc' = IF f = Fetchers[Len(Fetchers)] THEN "combine" ELSE "fetch"
    /\ UNCHANGED <<run, now, sheet, token_file, sp, worksheet, all_data, rows,
                   i, token_info>>

\* main, line 200
Combined(fs) ==
    fs["recent"] \o fs["top_short"] \o fs["top_medium"] \o fs["artists"]

\* main, lines 200-214: combine, then export or report that nothing came
Combine ==
    /\ pc = "combine"
    /\ all_data' = Combined(fetched)
    /\ IF all_data' # <<>>
       THEN /\ pc' = "export_call"
            /\ UNCHANGED events
       ELSE /\ pc' = "done"
            /\ events' = Append(events, Printed("No data fetched from Spotify"))
    /\ UNCHANGED <<run, now, sheet, token_file, sp, worksheet, api, fetched,
                   rows, i, token_info>>

\* main, lines 206-212: export_to_sheets has returned
Summary ==
    /\ pc = "returned"
    /\ pc' = "done"
    /\ events' = Append(events, Printed("Data Summary"))
    /\ UNCHANGED <<run, now, sheet, token_file, sp, worksheet, api, fetched,
                   all_data, rows, i, token_info>>

\* the script is started again, later, against the same spreadsheet
NewRun ==
    /\ pc = "done"
    /\ run < MaxRuns
    /\ run' = run + 1
    /\ now' = now + 1
    /\ pc' = "start"
    /\ sp' = None
    /\ worksheet' = None
    /\ api' = NoCalls
    /\ fetched' = NoFetched
    /\ all_data' = <<>>
    /\ rows' = <<>>
    /\ i' = 0
    /\ events' = <<>>
    /\ UNCHANGED <<sheet, token_file, token_info>>

-----------------------------------------------------------------------------
(* spotify_auth.py: authenticate_spotify and test_spotify_connection *)

NoFile == [file |-> "absent"]
\* a file json.load or the key lookups on its content raise on
Corrupt == [file |-> "corrupt"]

\* a token as the cache file holds it; expired is what
\* sp_oauth.is_token_expired answers for it
CachedToken(expired) ==
    [access_token |-> "cached", refresh_token |-> "r1", expired |-> expired]
\* what refresh_access_token returns
RefreshedToken ==
    [access_token |-> "refreshed", refresh_token |-> "r1", expired |-> FALSE]
\* what the browser flow puts in the cache
FreshToken ==
    [access_token |-> "fresh", refresh_token |-> "r2", expired |-> FALSE]

TokenFiles == {NoFile, Corrupt, CachedToken(FALSE), CachedToken(TRUE)}

\* NeedsRefresh with the test inverted
NeedsRefreshInverted(token) == ~ token.expired

\* line 32: if sp_oauth.is_token_expired(token_info)
NeedsRefresh(token) == token.expired

\* line 40: spotipy.Spotify(auth=token_info['access_token'])
TokenClient(token) == [kind |-> "token", access_token |-> token.access_token]

\* the except of lines 44-47, then on to the fresh authentication
SavedTokenFailed(evs) ==
    /\ events' = events \o evs
            \o <<[op |-> "auth", how |-> "saved", ok |-> FALSE],
                 Printed("Error with saved token"),
                 Printed("Starting fresh authentication")>>
    /\ token_file' = NoFile
    /\ pc' = "auth_fresh"

\* lines 17-18: os.path.exists(token_file)
AuthStart ==
    /\ pc = "auth_start"
    /\ IF token_file = NoFile
       THEN /\ pc' = "auth_fresh"
            /\ UNCHANGED events
       ELSE /\ pc' = "auth_load"
            /\ events' = Append(events, Printed("Found existing token file"))
    /\ UNCHANGED <<run, now, sheet, token_file, sp, worksheet, api, fetched,
                   all_data, rows, i, token_info>>

\* lines 20-29: json.load, then SpotifyOAuth(...); either may raise
AuthLoad ==
    /\ pc = "auth_load"
    /\ \/ /\ SavedTokenFailed(<<>>)
          /\ UNCHANGED token_info
       \/ /\ token_file # Corrupt
          /\ token_info' = token_file
          /\ pc' = "auth_check"
          /\ UNCHANGED <<token_file, events>>
    /\ UNCHANGED <<run, now, sheet, sp, worksheet, api, fetched, all_data,
                   rows, i>>

\* the answer of sp_oauth.is_token_expired, as the run observes it
ExpiryCheck(token) == [op |-> "expiry_check", expired |-> token.expired]

\* lines 32-42: refresh when expired, save, build the client from the token
AuthCheck ==
    /\ pc = "auth_check"
    /\ IF NeedsRefresh(token_info)
       THEN \/ /\ SavedTokenFailed(<<ExpiryCheck(token_info),
                                     [op |-> "refresh", ok |-> FALSE]>>)
               /\ UNCHANGED <<token_info, sp>>
            \/ /\ SavedTokenFailed(<<ExpiryCheck(token_info),
                                     [op |-> "refresh", ok |-> TRUE],
                                     [op |-> "write_cache", ok |-> FALSE]>>)
               /\ token_info' = RefreshedToken
               /\ UNCHANGED sp
            \/ /\ token_info' = RefreshedToken
               /\ token_file' = RefreshedToken
               /\ sp' = TokenClient(token_info')
               /\ pc' = "test"
               /\ events' = events \o
                      <<ExpiryCheck(token_info),
                        [op |-> "refresh", ok |-> TRUE],
                        [op |-> "write_cache", ok |-> TRUE],
                        [op |-> "auth", how |-> "saved", ok |-> TRUE]>>
       ELSE /\ sp' = TokenClient(token_info)
            /\ pc' = "test"
            /\ events' = events \o
                   <<ExpiryCheck(token_info),
                     [op |-> "auth", how |-> "saved", ok |-> TRUE]>>
            /\ UNCHANGED <<token_info, token_file>>
    /\ UNCHANGED <<run, now, sheet, worksheet, api, fetched, all_data, rows, i>>

\* lines 53-78: the browser flow; the library caches the token it obtains
AuthFresh ==
    /\ pc = "auth_fresh"
    /\ \E ok \in BOOLEAN :
         /\ sp' = IF ok THEN Client ELSE None
         /\ token_file' = IF ok THEN FreshToken ELSE token_file
         /\ events' = events
                \o <<[op |-> "auth", how |-> "fresh", ok |-> ok]>>
                \o (IF ok THEN <<>> ELSE <<Printed("Authentication failed")>>)
    /\ pc' = "test"
    /\ UNCHANGED <<run, now, sheet, worksheet, api, fetched, all_data, rows, i,
                   token_info>>

Tests == <<"current_user", "current_user_recently_played",
           "current_user_top_artists">>

\* test_spotify_connection, lines 87-124: three calls when there is a client
TestConnection ==
    /\ pc = "test"
    /\ IF sp = None
       THEN pc' = "auth_done" /\ UNCHANGED <<events, i>>
       ELSE \E ok \in BOOLEAN :
              /\ events' = events \o <<[op |-> "fetch", f |-> Tests[i + 1]]>>
                     \o (IF ok THEN <<>> ELSE <<Printed("Failed to get")>>)
              /\ i' = i + 1
              /\ pc' = IF i' = Len(Tests) THEN "auth_done" ELSE "test"
    /\ UNCHANGED <<run, now, sheet, token_file, sp, worksheet, api, fetched,
                   all_data, rows, token_info>>

-----------------------------------------------------------------------------
(* The specifications *)

Idle ==
    /\ run = 1
    /\ sp = None
    /\ fetched = NoFetched
    /\ rows = <<>>
    /\ i = 0
    /\ token_info = None
    /\ events = <<>>

\* python main.py against a new spreadsheet, or python spotify_auth.py
Init ==
    /\ Idle
    /\ now = 0
    /\ sheet = <<>>
    /\ all_data = <<>>
    /\ api = NoCalls
    /\ worksheet = None
    /\ \/ pc = "start" /\ token_file = NoFile
       \/ pc = "auth_start" /\ token_file \in TokenFiles

Next ==
    \/ GetSpotifyClient
    \/ GetGoogleSheet
    \/ Fetch
    \/ Combine
    \/ ExportCall
    \/ BatchStep
    \/ ExportReturn
    \/ Summary
    \/ NewRun
    \/ AuthStart
    \/ AuthLoad
    \/ AuthCheck
    \/ AuthFresh
    \/ TestConnection

Spec == Init /\ [][Next]_vars

(* A fetcher called on its own, on any response of the service. *)

FetcherInputs(f) ==
    {Raised} \cup
    { Returned(q) : q \in SeqsUpTo(ItemsOf(f), Min(FetcherLimit(f), MaxResp)) }

InitFetch ==
    /\ Idle
    /\ now = 0
    /\ sheet = <<>>
    /\ token_file = NoFile
    /\ all_data = <<>>
    /\ worksheet = None
    /\ pc = "fetcher_call"
    /\ \E f \in FetcherSet : \E call \in FetcherInputs(f) :
         api = [NoCalls EXCEPT ![f] = call]

\* the fetcher under call
Called == CHOOSE f \in FetcherSet : api[f].made

FetcherCall ==
    /\ pc = "fetcher_call"
    /\ fetched' = [fetched EXCEPT ![Called] = RunFetcher(Called, api[Called])]
    /\ pc' = "fetcher_returned"
    /\ UNCHANGED <<run, now, sheet, token_file, sp, worksheet, api, all_data,
                   rows, i, token_info, events>>

NextFetch == FetcherCall

SpecFetch == InitFetch /\ [][NextFetch]_vars

(* export_to_sheets called on its own, on any list of dicts. *)

\* a dict that lacks most of the keys export_to_sheets reads
PartialRecord(k) == [type |-> "manual", track_name |-> "Song", popularity |-> k]

\* the k-th dict of an input list: the three record kinds and a partial one
PatternRecord(k) ==
    CASE k % 4 = 0 -> RecentRecord(PatternItem("recent", k))
      [] k % 4 = 1 -> TopTrackRecord(PatternItem("top_short", k), "short_term")
      [] k % 4 = 2 -> TopArtistRecord(PatternItem("artists", k), "medium_term")
      [] OTHER     -> PartialRecord(k)

ExportLens ==
    {0, 1, batch_size - 1, batch_size, batch_size + 1, 2 * batch_size,
     2 * batch_size + 1, RecentLimit + 3 * TopLimit}

ExportInputs ==
    { [k \in 1..n |-> PatternRecord(k + shift)] :
        n \in ExportLens, shift \in 0..MaxShift }

\* a sheet an earlier run left: the header, and maybe a row
OldSheets == { headers, headers \o RowsOf(0, <<PatternRecord(1)>>) }

InitExport ==
    /\ Idle
    /\ now = 1
    /\ token_file = NoFile
    /\ pc = "export_call"
    /\ api = NoCalls
    /\ worksheet = Handle
    /\ sheet \in OldSheets
    /\ all_data \in ExportInputs

NextExport ==
    \/ ExportCall
    \/ BatchStep
    \/ ExportReturn

SpecExport == InitExport /\ [][NextExport]_vars

-----------------------------------------------------------------------------
(* Properties of the fetchers, under SpecFetch *)

\* the names joined with ', ', written out for the lists of up to three names
CommaJoined(names) ==
    CASE Len(names) = 0 -> ""
      [] Len(names) = 1 -> names[1]
      [] Len(names) = 2 -> names[1] \o ", " \o names[2]
      [] OTHER -> names[1] \o ", " \o names[2] \o ", " \o names[3]

\* the call under SpecFetch returned items that are all well formed
GoodCall(f) ==
    /\ ~ api[f].raised
    /\ \A k \in 1..Len(api[f].items) :
         api[f].items[k] \in
            (CASE f = "recent"  -> GoodRecentItems
               [] f = "artists" -> GoodArtists
               [] OTHER         -> GoodTracks)

TimeRangeOf(f) == IF f = "top_short" THEN "short_term" ELSE "medium_term"

\* the documented flattening of a recently played item
RecentMapped(item, rec) ==
    /\ DOMAIN rec = {"type", "track_name", "artists", "album", "duration_ms",
                     "popularity", "played_at", "context"}
    /\ rec.type = "recent"
    /\ rec.track_name = item.track.name
    /\ rec.artists = CommaJoined(Names(item.track.artists))
    /\ rec.album = item.track.album.name
    /\ rec.duration_ms = item.track.duration_ms
    /\ rec.popularity = item.track.popularity
    /\ rec.played_at =
         (IF "played_at" \in DOMAIN item /\ item.played_at # <<>>
          THEN item.played_at[1] \o " " \o item.played_at[3] ELSE "")
    /\ rec.context = (IF item.context = None THEN "Unknown"
                      ELSE item.context.type)

\* the documented flattening of a top track
TopTrackMapped(track, rec, time_range) ==
    /\ DOMAIN rec = {"type", "track_name", "artists", "album", "duration_ms",
                     "popularity", "played_at", "context"}
    /\ rec.type = "top_" \o time_range
    /\ rec.track_name = track.name
    /\ rec.artists = CommaJoined(Names(track.artists))
    /\ rec.album = track.album.name
    /\ rec.duration_ms = track.duration_ms
    /\ rec.popularity = track.popularity
    /\ rec.played_at = ""
    /\ rec.context = "top_tracks"

\* the documented flattening of a top artist
TopArtistMapped(artist, rec, time_range) ==
    /\ DOMAIN rec = {"type", "track_name", "artists", "album", "duration_ms",
                     "popularity", "played_at", "context", "genres"}
    /\ rec.type = "artist_" \o time_range
    /\ rec.track_name = ""
    /\ rec.artists = artist.name
    /\ rec.album = ""
    /\ rec.duration_ms = ""
    /\ rec.popularity = artist.popularity
    /\ rec.played_at = ""
    /\ rec.context = "top_artists"
    /\ rec.genres = CommaJoined(artist.genres)

Mapped(f, item, rec) ==
    CASE f = "recent"  -> RecentMapped(item, rec)
      [] f = "artists" -> TopArtistMapped(item, rec, TimeRangeOf(f))
      [] OTHER         -> TopTrackMapped(item, rec, TimeRangeOf(f))

(* C4: for a response of N well-formed items, each fetcher returns exactly *)
(* N records, the k-th being the documented flattening of the k-th item.   *)
C4_FlattensEveryItem ==
    pc = "fetcher_returned" =>
        \A f \in FetcherSet :
            (api[f].made /\ GoodCall(f)) =>
                /\ Len(fetched[f]) = Len(api[f].items)
                /\ \A k \in 1..Len(api[f].items) :
                     Mapped(f, api[f].items[k], fetched[f][k])

\* a two-item response of recently played has been flattened
C4_Witness ==
    /\ pc = "fetcher_returned"
    /\ api["recent"].made
    /\ GoodCall("recent")
    /\ Len(fetched["recent"]) = 2
    /\ fetched["recent"][1].artists = "Ann, Bob"
    /\ fetched["recent"][2].played_at = "2024-05-01 10:00:00"

(* C5: in get_recently_played an item without playback context gives a    *)
(* record with context "Unknown", an item with one gives its type, an item *)
(* without artists gives the empty artists string, and the record is       *)
(* produced all the same.                                                  *)
C5_UnknownContextEmptyArtists ==
    (pc = "fetcher_returned" /\ api["recent"].made /\ GoodCall("recent")) =>
        /\ Len(fetched["recent"]) = Len(api["recent"].items)
        /\ \A k \in 1..Len(api["recent"].items) :
             LET item == api["recent"].items[k]
                 rec == fetched["recent"][k]
             IN  /\ item.context = None => rec.context = "Unknown"
                 /\ item.context # None => rec.context = item.context.type
                 /\ item.track.artists = <<>> => rec.artists = ""

\* an item with neither context nor artists has been flattened
C5_Witness ==
    /\ pc = "fetcher_returned"
    /\ api["recent"].made
    /\ GoodCall("recent")
    /\ \E k \in 1..Len(fetched["recent"]) :
         /\ api["recent"].items[k].context = None
         /\ api["recent"].items[k].track.artists = <<>>
         /\ fetched["recent"][k].context = "Unknown"
         /\ fetched["recent"][k].artists = ""

-----------------------------------------------------------------------------
(* Properties of export_to_sheets, under SpecExport *)

\* the append_rows calls made so far, in call order
Appends == SelectSeq(events, LAMBDA e : e.op = "append")

RECURSIVE Flatten(_)
Flatten(batches) ==
    IF batches = <<>> THEN <<>> ELSE Head(batches).rows \o Flatten(Tail(batches))

\* ceil(n / batch_size)
CeilBatches(n) == (n + batch_size - 1) \div batch_size

\* the number of rows the loop has passed
Passed == Min(i, Len(rows))

(* C1: R records go out as ceil(R/50) batches of 1 to 50 rows each, whose  *)
(* concatenation in call order is the input in its order; for R = 0 no     *)
(* append call is made.                                                    *)
C1_BatchesPartitionInput ==
    /\ \A k \in 1..Len(Appends) : Len(Appends[k].rows) \in 1..batch_size
    /\ Len(Appends) = CeilBatches(Passed)
    /\ Flatten(Appends) = SubSeq(rows, 1, Passed)
    /\ pc = "returned" =>
          /\ Len(Appends) = CeilBatches(Len(all_data))
          /\ Len(Flatten(Appends)) = Len(all_data)
          /\ \A k \in 1..Len(all_data) :
                Flatten(Appends)[k][7] = all_data[k].popularity
          /\ all_data = <<>> => Appends = <<>>

\* 101 records have gone out as batches of 50, 50 and 1
C1_Witness ==
    /\ pc = "returned"
    /\ Len(all_data) = 2 * batch_size + 1
    /\ Len(Appends) = 3
    /\ Len(Appends[3].rows) = 1

\* the append_rows calls that returned, in call order
Succeeded == SelectSeq(events, LAMBDA e : e.op = "append" /\ e.ok)

\* the rows of the sheet below the rows it held when export_to_sheets began
Gained(old) == SubSeq(sheet, Len(old) + 1, Len(sheet))

(* C8: a batch whose append fails is skipped, not retried: the k-th append *)
(* call carries the k-th slice of the rows, so each batch is attempted     *)
(* once and the batches after a failed one are attempted too; on return    *)
(* the sheet has gained the rows of the batches that succeeded, in input   *)
(* order, and no row twice.                                                *)
C8_FailedBatchSkipped ==
    /\ \A k \in 1..Len(Appends) :
          Appends[k].rows =
             SubSeq(rows, (k - 1) * batch_size + 1,
                    Min(k * batch_size, Len(rows)))
    /\ \E old \in OldSheets :
          /\ Len(sheet) >= Len(old)
          /\ SubSeq(sheet, 1, Len(old)) = old
          /\ Gained(old) = Flatten(Succeeded)
          /\ \A a, b \in 1..Len(Gained(old)) :
                a < b => Gained(old)[a][7] < Gained(old)[b][7]
    /\ pc = "returned" => Len(Appends) = CeilBatches(Len(rows))

\* of three batches the first failed and the other two were written
C8_Witness ==
    /\ pc = "returned"
    /\ Len(Appends) = 3
    /\ ~ Appends[1].ok
    /\ Appends[2].ok
    /\ Appends[3].ok
    /\ \E old \in OldSheets :
          /\ SubSeq(sheet, 1, Len(old)) = old
          /\ Len(Gained(old)) = Len(rows) - batch_size

(* C9: between every two consecutive append calls of export_to_sheets      *)
(* there is a sleep, whether the earlier call returned or raised.          *)
C9_PauseBetweenAppends ==
    \A k \in 1..Len(events) :
        (events[k].op = "append" /\ k < Len(events)) =>
            \/ events[k + 1].op = "sleep"
            \/ \A m \in (k + 1)..Len(events) : events[m].op # "append"

\* the columns of a data row after the timestamp, in header order
Columns == <<"type", "track_name", "artists", "album", "duration_ms",
             "popularity", "played_at", "context">>

(* C10: every data row appended has 9 cells in the header order: the       *)
(* timestamp, then for each further column the record's field, or the      *)
(* empty string when the record lacks it; nothing else (genres) is         *)
(* written; all rows of one call carry one timestamp.                      *)
C10_RowSchema ==
    /\ Len(headers[1]) = 9
    /\ headers[1] = <<"Timestamp", "Type", "Track Name", "Artist(s)", "Album",
                      "Duration (ms)", "Popularity", "Played At", "Context">>
    /\ \A k \in 1..Len(Flatten(Appends)) :
          LET row == Flatten(Appends)[k]
              item == all_data[k]
          IN  /\ Len(row) = Len(headers[1])
              /\ row[1] = Flatten(Appends)[1][1]
              /\ \A c \in 1..Len(Columns) :
                    IF Columns[c] \in DOMAIN item
                    THEN row[c + 1] = item[Columns[c]]
                    ELSE row[c + 1] = ""

\* rows of an artist with genres and of a dict lacking fields went out in
\* two batches, the clock having moved between them
C10_Witness ==
    /\ pc = "returned"
    /\ Len(Appends) >= 2
    /\ Appends[1].ok
    /\ \E k \in 1..Len(Flatten(Appends)) :
          /\ k > batch_size
          /\ "genres" \in DOMAIN all_data[k]
          /\ all_data[k].genres # ""
          /\ Flatten(Appends)[k][9] = "top_artists"
    /\ \E k \in 1..Len(Flatten(Appends)) :
          /\ "album" \notin DOMAIN all_data[k]
          /\ Flatten(Appends)[k][5] = ""

-----------------------------------------------------------------------------
(* Properties of the runs of main.py and spotify_auth.py, under Spec *)

IsHeader(row) == row[1] = headers[1][1]

(* C2: the header row is written only to an empty sheet: over the runs,    *)
(* failed appends included, the sheet holds at most one header row, and it *)
(* is the first row, so a run against a sheet that holds rows adds none.   *)
C2_SingleHeader ==
    /\ \A k \in 1..Len(sheet) : IsHeader(sheet[k]) => k = 1
    /\ \A k \in 1..Len(events) :
          (events[k].op = "append" /\ events[k].rows = headers /\ events[k].ok)
             => sheet = Flatten(Succeeded)

\* a second run got the worksheet of a sheet that held data rows
C2_Witness ==
    /\ run = 2
    /\ worksheet = Handle
    /\ pc = "fetch"
    /\ Len(sheet) > 1
    /\ IsHeader(sheet[1])
    /\ Appends = <<>>

\* the call of fetcher f hit an error: the call raised, or an item did
FetchFailed(f) ==
    \/ api[f].raised
    \/ \E k \in 1..Len(api[f].items) : ItemRaises(f, api[f].items[k])

\* the number of records the fetchers that hit no error were given
RECURSIVE GoodItems(_)
GoodItems(k) ==
    IF k = 0 THEN 0
    ELSE GoodItems(k - 1) +
         (IF FetchFailed(Fetchers[k]) THEN 0 ELSE Len(api[Fetchers[k]].items))

(* C7: a fetcher that hits an error, in the call or on any one item,       *)
(* returns the empty list, never a part of it; main goes on: the other     *)
(* fetchers run, and the records of those that succeeded are what is       *)
(* handed to export_to_sheets, in fetcher order.                           *)
C7_FailedFetchIsEmpty ==
    /\ \A f \in FetcherSet :
          api[f].made =>
             IF FetchFailed(f) THEN fetched[f] = <<>>
             ELSE Len(fetched[f]) = Len(api[f].items)
    /\ pc \in {"combine", "export_call", "batch", "returned"} =>
          \A f \in FetcherSet : api[f].made
    /\ pc \in {"export_call", "batch", "returned"} =>
          /\ Len(all_data) = GoodItems(Len(Fetchers))
          /\ all_data = fetched["recent"] \o fetched["top_short"]
                          \o fetched["top_medium"] \o fetched["artists"]
    /\ (pc = "batch" /\ api["recent"].made) =>
          /\ Len(rows) = GoodItems(Len(Fetchers))
          /\ \A k \in 1..Len(rows) : rows[k][7] = all_data[k].popularity

\* recently played failed on its last item, the top artists came through
\* and are being exported
C7_Witness ==
    /\ pc = "batch"
    /\ api["recent"].made
    /\ ~ api["recent"].raised
    /\ Len(api["recent"].items) = MaxItems
    /\ FetchFailed("recent")
    /\ fetched["recent"] = <<>>
    /\ api["top_short"].raised
    /\ ~ FetchFailed("artists")
    /\ Len(rows) = MaxItems
    /\ rows[1][2] = "artist_medium_term"

\* a setup step that failed: an authentication or the sheet connection
SetupFailure(e) == e.op \in {"auth", "sheet"} /\ ~ e.ok

\* the events that are a work of the run: authentications, fetches, appends
Work(e) == e.op \in {"auth", "fetch", "append"}

SavedTokenFailure(e) == SetupFailure(e) /\ e.op = "auth" /\ e.how = "saved"

C3_RefreshIffExpired ==
    /\ \A k \in 1..Len(events) :
          events[k].op = "expiry_check" =>
             /\ k < Len(events)
             /\ events[k].expired <=> events[k + 1].op = "refresh"
             /\ ~ events[k].expired =>
                   events[k + 1] = [op |-> "auth", how |-> "saved", ok |-> TRUE]
    /\ \A k \in 1..Len(events) :
          events[k].op = "refresh" =>
             /\ k > 1
             /\ events[k - 1].op = "expiry_check"
             /\ events[k - 1].expired
             /\ events[k].ok => events[k + 1].op = "write_cache"
    /\ Len(SelectSeq(events, LAMBDA e : e.op = "refresh")) <= 1
    /\ (sp # None /\ sp.kind = "token") =>
          \E k \in 1..Len(events) :
             /\ events[k].op = "expiry_check"
             /\ IF events[k].expired
                THEN /\ events[k + 1] = [op |-> "refresh", ok |-> TRUE]
                     /\ events[k + 2] = [op |-> "write_cache", ok |-> TRUE]
                     /\ events[k + 3].op = "auth"
                     /\ sp.access_token = RefreshedToken.access_token
                     /\ token_file = RefreshedToken
                ELSE /\ sp.access_token = CachedToken(FALSE).access_token
                     /\ token_file = CachedToken(FALSE)

\* the cached token was expired, it was refreshed and saved, and the client
\* was built from the new token
C3_Witness ==
    /\ sp # None
    /\ sp.kind = "token"
    /\ sp.access_token = RefreshedToken.access_token
    /\ token_file = RefreshedToken
    /\ \E k \in 1..Len(events) :
          events[k] = [op |-> "expiry_check", expired |-> TRUE]

=============================================================================
